---- MODULE Spec2Model ----
(***************************************************************************)
(* SingleLinkedList<Type>: the node chain, the sentinel head_, size_, the  *)
(* positional mutations, copy / assignment / swap and the comparison       *)
(* operators.  The repository holds two variants of the header; the        *)
(* variable build says which one a behaviour runs:                         *)
(*   "h"    src/single-linked-list/single-linked-list.h                    *)
(*   "part" src/unnamed/part_000                                           *)
(***************************************************************************)
EXTENDS Integers, Sequences, FiniteSets, TLC

\* Heap capacity: operator new throws std::bad_alloc once MaxNodes nodes are allocated.
MaxNodes == 3
\* The longest initializer list a caller passes.
MaxInit == 2

\* The element values the client stores.
Values == {1, 2}
Nodes == 1..MaxNodes
Builds == {"h", "part"}

\* Addresses: a heap node is its number, the null pointer is 0 and the
\* sentinel head_ embedded in list object l is HeadAddr(l) = -l.
nullptr == 0
\* The two list objects of the program under test.
Lists == {1, 2}
\* The local object `tmp` of operator=.
tmp == 3
Objects == Lists \cup {tmp}
HeadAddr(l) == 0 - l

VARIABLES build, live, head_, size_, heap, last

vars == <<build, live, head_, size_, heap, last>>

\* The memory the operations read and write, as one value.  size_ is a
\* size_t; it stays within 0..MaxNodes, far from wrapping.
Store == [head_ |-> head_, size_ |-> size_, heap |-> heap]

\* What an operation leaves behind: the memory, whether it threw, the
\* iterator it returned (nullptr when it returns none), the nodes it
\* passed to delete, in order, and whether it read through a null or
\* freed pointer (ub).  The calls of Next keep to each operation's
\* contract, so ub marks a read no behaviour of Spec makes (NoUB below).
Res(s, thrown, ret, deleted, ub) ==
    [s |-> s, thrown |-> thrown, ret |-> ret, deleted |-> deleted, ub |-> ub]

Allocated(s) == DOMAIN s.heap

\* node->next_node, for the sentinel or a heap node.
NextOf(s, p) == IF p < 0 THEN s.head_[0 - p] ELSE s.heap[p].next_node

\* node->next_node = q
SetNext(s, p, q) ==
    IF p < 0 THEN [s EXCEPT !.head_[0 - p] = q]
             ELSE [s EXCEPT !.heap[p].next_node = q]

\* new Node(...) succeeds when the caller's environment lets it (ok) and
\* the heap has room.
CanNew(s, ok) == ok /\ Allocated(s) # Nodes

\* The address operator new returns: addresses are opaque, the least free one is taken.
NewAddr(s) == CHOOSE n \in Nodes \ Allocated(s) : \A m \in Nodes \ Allocated(s) : n <= m

\* Node(const Type& val, Node* next) constructed at address n.
Node(s, n, val, next) ==
    [s EXCEPT !.heap = (n :> [value |-> val, next_node |-> next]) @@ s.heap]

\* delete n
Delete(s, n) ==
    [s EXCEPT !.heap = [m \in (DOMAIN s.heap) \ {n} |-> s.heap[m]]]

(***************************************************************************)
(* Traversal: begin() .. end() with operator++ and operator*.             *)
(***************************************************************************)
\* The nodes an iterator started at p visits before it reaches end(); the
\* walk is cut after fuel steps and where it leaves the allocated nodes.
RECURSIVE Walk(_, _, _)
Walk(s, p, fuel) ==
    IF p = nullptr \/ fuel = 0 \/ p \notin Allocated(s) THEN <<>>
    ELSE <<p>> \o Walk(s, s.heap[p].next_node, fuel - 1)

\* The nodes of list l in traversal order.
NodeChain(s, l) == Walk(s, s.head_[l], MaxNodes + 1)

\* The values of list l in traversal order.
Traversal(s, l) ==
    LET c == NodeChain(s, l) IN [i \in 1..Len(c) |-> s.heap[c[i]].value]

\* GetSize()
GetSize(s, l) == s.size_[l]

(***************************************************************************)
(* Mutations.                                                              *)
(***************************************************************************)
\* PushFront that forgets ++size_.
PushFront_NoSize(s, l, value, ok) ==
    IF ~CanNew(s, ok) THEN Res(s, TRUE, nullptr, <<>>, FALSE)
    ELSE LET n  == NewAddr(s)
             s1 == Node(s, n, value, s.head_[l])
             s2 == [s1 EXCEPT !.head_[l] = n]
         IN  Res(s2, FALSE, nullptr, <<>>, FALSE)

\* void PushFront(const Type& value)
PushFront(s, l, value, ok) ==
    IF ~CanNew(s, ok) THEN Res(s, TRUE, nullptr, <<>>, FALSE)
    ELSE LET n  == NewAddr(s)
             s1 == Node(s, n, value, s.head_[l])
             s2 == [s1 EXCEPT !.head_[l] = n]
             s3 == [s2 EXCEPT !.size_[l] = @ + 1]
         IN  Res(s3, FALSE, nullptr, <<>>, FALSE)

\* The loop of Clear() in the .h variant: size_ is not touched by the loop.
RECURSIVE ClearLoopH(_, _, _)
ClearLoopH(s, node, deleted) ==
    IF node = nullptr THEN Res(s, FALSE, nullptr, deleted, FALSE)
    ELSE IF node \notin Allocated(s) THEN Res(s, FALSE, nullptr, deleted, TRUE)
    ELSE LET next_node == s.heap[node].next_node
         IN  ClearLoopH(Delete(s, node), next_node, Append(deleted, node))

\* void Clear(), .h variant: size_ = 0 after the loop.
ClearH(s, l) ==
    LET r == ClearLoopH(s, s.head_[l], <<>>)
    IN  [r EXCEPT !.s = [r.s EXCEPT !.size_[l] = 0, !.head_[l] = nullptr]]

\* The loop of Clear() in part_000: --size_ for every node deleted.
RECURSIVE ClearLoopP(_, _, _, _)
ClearLoopP(s, l, node, deleted) ==
    IF node = nullptr THEN Res(s, FALSE, nullptr, deleted, FALSE)
    ELSE IF node \notin Allocated(s) THEN Res(s, FALSE, nullptr, deleted, TRUE)
    ELSE LET next_node == s.heap[node].next_node
             s1 == Delete(s, node)
             s2 == [s1 EXCEPT !.size_[l] = @ - 1]
         IN  ClearLoopP(s2, l, next_node, Append(deleted, node))

\* Clear() of part_000 that leaves head_.next_node pointing at the deleted chain.
ClearP_NoReset(s, l) == ClearLoopP(s, l, s.head_[l], <<>>)

\* void Clear(), part_000.
ClearP(s, l) ==
    LET r == ClearLoopP(s, l, s.head_[l], <<>>)
    IN  [r EXCEPT !.s = [r.s EXCEPT !.head_[l] = nullptr]]

Clear(s, l) == IF build = "h" THEN ClearH(s, l) ELSE ClearP(s, l)

\* InsertAfter that counts the element before the new-expression has succeeded.
InsertAfter_SizeFirst(s, l, pos, value, ok) ==
    LET s0 == [s EXCEPT !.size_[l] = @ + 1] IN
    IF ~CanNew(s0, ok) THEN Res(s0, TRUE, nullptr, <<>>, FALSE)
    ELSE LET new_node == NewAddr(s0)
             s1 == Node(s0, new_node, value, NextOf(s0, pos))
             s2 == SetNext(s1, pos, new_node)
         IN  Res(s2, FALSE, new_node, <<>>, FALSE)

\* InsertAfter that constructs the new node with a null next_node.
InsertAfter_DropTail(s, l, pos, value, ok) ==
    IF ~CanNew(s, ok) THEN Res(s, TRUE, nullptr, <<>>, FALSE)
    ELSE LET new_node == NewAddr(s)
             s1 == Node(s, new_node, value, nullptr)
             s2 == SetNext(s1, pos, new_node)
             s3 == [s2 EXCEPT !.size_[l] = @ + 1]
         IN  Res(s3, FALSE, new_node, <<>>, FALSE)

\* Iterator InsertAfter(ConstIterator pos, const Type& value)
InsertAfter(s, l, pos, value, ok) ==
    IF ~CanNew(s, ok) THEN Res(s, TRUE, nullptr, <<>>, FALSE)
    ELSE LET new_node == NewAddr(s)
             s1 == Node(s, new_node, value, NextOf(s, pos))
             s2 == SetNext(s1, pos, new_node)
             s3 == [s2 EXCEPT !.size_[l] = @ + 1]
         IN  Res(s3, FALSE, new_node, <<>>, FALSE)

\* The guarded body of PopFront(): head_.next_node is rewired and the first node deleted.
PopFrontBody(s, l) ==
    LET node_to_del == s.head_[l] IN
    IF node_to_del = nullptr \/ node_to_del \notin Allocated(s)
    THEN Res(s, FALSE, nullptr, <<>>, TRUE)
    ELSE LET s1 == [s EXCEPT !.head_[l] = s.heap[node_to_del].next_node]
             s2 == Delete(s1, node_to_del)
             s3 == [s2 EXCEPT !.size_[l] = @ - 1]
         IN  Res(s3, FALSE, nullptr, <<node_to_del>>, FALSE)

\* void PopFront() noexcept, .h variant: guarded by if(size_).
PopFrontH(s, l) ==
    IF s.size_[l] # 0 THEN PopFrontBody(s, l)
    ELSE Res(s, FALSE, nullptr, <<>>, FALSE)

\* void PopFront() noexcept, part_000: unguarded.
PopFrontP(s, l) == PopFrontBody(s, l)

PopFront(s, l) == IF build = "h" THEN PopFrontH(s, l) ELSE PopFrontP(s, l)

\* EraseAfter that unlinks the node and never deletes it.
EraseAfter_NoDelete(s, l, pos) ==
    LET node_to_del == NextOf(s, pos) IN
    IF node_to_del = nullptr \/ node_to_del \notin Allocated(s)
    THEN Res(s, FALSE, nullptr, <<>>, TRUE)
    ELSE LET s1 == SetNext(s, pos, s.heap[node_to_del].next_node)
             s3 == [s1 EXCEPT !.size_[l] = @ - 1]
         IN  Res(s3, FALSE, NextOf(s3, pos), <<>>, FALSE)

\* Iterator EraseAfter(ConstIterator pos) noexcept
EraseAfter(s, l, pos) ==
    LET node_to_del == NextOf(s, pos) IN
    IF node_to_del = nullptr \/ node_to_del \notin Allocated(s)
    THEN Res(s, FALSE, nullptr, <<>>, TRUE)
    ELSE LET s1 == SetNext(s, pos, s.heap[node_to_del].next_node)
             s2 == Delete(s1, node_to_del)
             s3 == [s2 EXCEPT !.size_[l] = @ - 1]
         IN  Res(s3, FALSE, NextOf(s3, pos), <<node_to_del>>, FALSE)

(***************************************************************************)
(* Construction, destruction, assignment, swap.                            *)
(***************************************************************************)
\* SingleLinkedList(): size_ = 0, head_.next_node = nullptr by Node's default member initializer.
DefaultCtor(s, l) ==
    Res([s EXCEPT !.head_[l] = nullptr, !.size_[l] = 0], FALSE, nullptr, <<>>, FALSE)

\* A constructor that throws leaves no object: ~SingleLinkedList() does not
\* run, head_ and size_ of the object cease to exist, and whatever the
\* constructor allocated stays in the heap.
Abandon(s, l) == [s EXCEPT !.head_[l] = nullptr, !.size_[l] = 0]

\* Construct(begin, end) over an initializer_list: the i-th iteration copies values[i]
\* into a new node after `node`; failAt is the iteration whose new-expression throws (0: none).
RECURSIVE ConstructValues(_, _, _, _, _)
ConstructValues(s, node, values, i, failAt) ==
    IF i > Len(values) THEN Res(s, FALSE, nullptr, <<>>, FALSE)
    ELSE IF ~CanNew(s, i # failAt) THEN Res(s, TRUE, nullptr, <<>>, FALSE)
    ELSE LET n  == NewAddr(s)
             s1 == Node(s, n, values[i], nullptr)
             s2 == SetNext(s1, node, n)
         IN  ConstructValues(s2, n, values, i + 1, failAt)

\* Construct(begin, end) over another list: `iterator` walks the source chain.
RECURSIVE ConstructCopy(_, _, _, _, _)
ConstructCopy(s, node, iterator, i, failAt) ==
    IF iterator = nullptr THEN Res(s, FALSE, nullptr, <<>>, FALSE)
    ELSE IF iterator \notin Allocated(s) THEN Res(s, FALSE, nullptr, <<>>, TRUE)
    ELSE IF ~CanNew(s, i # failAt) THEN Res(s, TRUE, nullptr, <<>>, FALSE)
    ELSE LET n  == NewAddr(s)
             s1 == Node(s, n, s.heap[iterator].value, nullptr)
             s2 == SetNext(s1, node, n)
         IN  ConstructCopy(s2, n, s.heap[iterator].next_node, i + 1, failAt)

\* SingleLinkedList(std::initializer_list<Type> values) : size_(values.size())
InitListCtor(s, l, values, failAt) ==
    LET s0 == [s EXCEPT !.head_[l] = nullptr, !.size_[l] = Len(values)]
        r  == ConstructValues(s0, HeadAddr(l), values, 1, failAt)
    IN  IF r.thrown THEN [r EXCEPT !.s = Abandon(r.s, l)] ELSE r

\* SingleLinkedList(const SingleLinkedList& other) : size_(other.GetSize())
CopyCtor(s, l, other, failAt) ==
    LET s0 == [s EXCEPT !.head_[l] = nullptr, !.size_[l] = GetSize(s, other)]
        r  == ConstructCopy(s0, HeadAddr(l), s0.head_[other], 1, failAt)
    IN  IF r.thrown THEN [r EXCEPT !.s = Abandon(r.s, l)] ELSE r

\* void swap(SingleLinkedList& other) noexcept, part_000: the two
\* head_.next_node and the two size_ are exchanged through temporaries.
swapP(s, l, other) ==
    LET tmp_head == s.head_[l]
        s1 == [s  EXCEPT !.head_[l] = s.head_[other]]
        s2 == [s1 EXCEPT !.head_[other] = tmp_head]
        tmp_size == s2.size_[l]
        s3 == [s2 EXCEPT !.size_[l] = s2.size_[other]]
        s4 == [s3 EXCEPT !.size_[other] = tmp_size]
    IN  Res(s4, FALSE, nullptr, <<>>, FALSE)

\* void swap(SingleLinkedList& other) noexcept, .h variant:
\*   std::swap(&head_.next_node, &other.head_.next_node);
\*   std::swap(&size_, other.size_);
\* The arguments are the addresses of the members, temporaries; no
\* statement of the body assigns head_.next_node or size_ of either list.
swapH(s, l, other) == Res(s, FALSE, nullptr, <<>>, FALSE)

swap(s, l, other) == IF build = "h" THEN swapH(s, l, other) ELSE swapP(s, l, other)

\* ~SingleLinkedList()
Dtor(s, l) == Clear(s, l)

\* SingleLinkedList& operator=(const SingleLinkedList& rhs)
CopyAssign(s, l, rhs, failAt) ==
    IF l = rhs THEN Res(s, FALSE, nullptr, <<>>, FALSE)
    ELSE LET c == CopyCtor(s, tmp, rhs, failAt) IN
         IF c.thrown \/ c.ub THEN c
         ELSE LET w == swap(c.s, l, tmp)
                  d == Dtor(w.s, tmp)
              IN  d

(***************************************************************************)
(* Comparison operators.                                                   *)
(***************************************************************************)
\* The element loop of operator== (std::equal in the .h variant, the
\* hand-written loop in part_000): compares counts the element comparisons made.
RECURSIVE EqualLoop(_, _, _, _)
EqualLoop(s, lhs_iter, rhs_iter, compares) ==
    IF lhs_iter = nullptr THEN [result |-> TRUE, compares |-> compares, ub |-> FALSE]
    ELSE IF rhs_iter = nullptr \/ lhs_iter \notin Allocated(s) \/ rhs_iter \notin Allocated(s)
    THEN [result |-> FALSE, compares |-> compares, ub |-> TRUE]
    ELSE IF s.heap[lhs_iter].value # s.heap[rhs_iter].value
    THEN [result |-> FALSE, compares |-> compares + 1, ub |-> FALSE]
    ELSE EqualLoop(s, s.heap[lhs_iter].next_node, s.heap[rhs_iter].next_node, compares + 1)

\* operator== that stops after the size check.
OperatorEq_SizeOnly(s, lhs, rhs) ==
    IF s.head_[lhs] = s.head_[rhs] THEN [result |-> TRUE, compares |-> 0, ub |-> FALSE]
    ELSE [result |-> GetSize(s, lhs) = GetSize(s, rhs), compares |-> 0, ub |-> FALSE]

\* bool operator==(lhs, rhs)
OperatorEq(s, lhs, rhs) ==
    IF s.head_[lhs] = s.head_[rhs] THEN [result |-> TRUE, compares |-> 0, ub |-> FALSE]
    ELSE IF GetSize(s, lhs) # GetSize(s, rhs) THEN [result |-> FALSE, compares |-> 0, ub |-> FALSE]
    ELSE EqualLoop(s, s.head_[lhs], s.head_[rhs], 0)

\* bool operator!=(lhs, rhs)
OperatorNe(s, lhs, rhs) == ~OperatorEq(s, lhs, rhs).result

\* The comparator handed to std::lexicographical_compare: operator< by default, std::greater().
Comp(comp, a, b) == IF comp = "greater" THEN a > b ELSE a < b

\* std::lexicographical_compare(first1, last1 = end(), first2, last2 = end(), comp)
RECURSIVE LexicographicalCompare(_, _, _, _)
LexicographicalCompare(s, first1, first2, comp) ==
    IF first1 = nullptr \/ first2 = nullptr THEN first1 = nullptr /\ first2 # nullptr
    ELSE IF Comp(comp, s.heap[first1].value, s.heap[first2].value) THEN TRUE
    ELSE IF Comp(comp, s.heap[first2].value, s.heap[first1].value) THEN FALSE
    ELSE LexicographicalCompare(s, s.heap[first1].next_node, s.heap[first2].next_node, comp)

\* bool operator<(lhs, rhs)
OperatorLess(s, lhs, rhs) == LexicographicalCompare(s, s.head_[lhs], s.head_[rhs], "less")

\* bool operator>(lhs, rhs)
OperatorGreater(s, lhs, rhs) == LexicographicalCompare(s, s.head_[lhs], s.head_[rhs], "greater")

\* bool operator<=(lhs, rhs)
OperatorLessEq(s, lhs, rhs) == OperatorEq(s, lhs, rhs).result \/ OperatorLess(s, lhs, rhs)

\* bool operator>=(lhs, rhs)
OperatorGreaterEq(s, lhs, rhs) == OperatorEq(s, lhs, rhs).result \/ OperatorGreater(s, lhs, rhs)

(***************************************************************************)
(* The program: two list objects and the calls a client makes on them.     *)
(***************************************************************************)
EmptyHeap == [n \in {} |-> [value |-> 0, next_node |-> nullptr]]

NoCmp == [eq |-> FALSE, ne |-> FALSE, lt |-> FALSE, le |-> FALSE, gt |-> FALSE,
          ge |-> FALSE, compares |-> 0]

\* The state a call starts from, kept with the call's record.
Snapshot == [head_ |-> head_, size_ |-> size_, heap |-> heap, live |-> live]

\* The record of a client that is between two calls.
Idle ==
    [op |-> "idle", l |-> 0, o |-> 0, pos |-> nullptr, v |-> 0,
     values |-> <<>>, thrown |-> FALSE, ret |-> nullptr, deleted |-> <<>>,
     ub |-> FALSE, cmp |-> NoCmp,
     pre |-> [head_ |-> [o \in Objects |-> nullptr],
              size_ |-> [o \in Objects |-> 0],
              heap |-> EmptyHeap,
              live |-> [o \in Objects |-> o \in Lists]]]

\* Both lists default-constructed, nothing allocated; tmp exists only inside operator=.
Init ==
    /\ build \in Builds
    /\ live = [o \in Objects |-> o \in Lists]
    /\ head_ = [o \in Objects |-> nullptr]
    /\ size_ = [o \in Objects |-> 0]
    /\ heap = EmptyHeap
    /\ last = Idle

\* The client is between two calls.
Ready == last.op = "idle"

\* The call returns: memory becomes what the operation left, and the call is recorded.
Return(r, op, l, o, pos, v, values, cmp, nowLive) ==
    /\ head_' = r.s.head_
    /\ size_' = r.s.size_
    /\ heap' = r.s.heap
    /\ live' = nowLive
    /\ last' = [op |-> op, l |-> l, o |-> o, pos |-> pos, v |-> v, values |-> values,
                thrown |-> r.thrown, ret |-> r.ret, deleted |-> r.deleted,
                ub |-> r.ub, cmp |-> cmp, pre |-> Snapshot]
    /\ UNCHANGED build

\* The positions of list l a caller may pass: before_begin() and every element.
Positions(l) == {HeadAddr(l)} \cup {NodeChain(Store, l)[i] : i \in 1..Len(NodeChain(Store, l))}

\* The initializer lists a caller may pass.
InitLists == UNION {[1..k -> Values] : k \in 0..MaxInit}

CallPushFront(l, v, ok) ==
    /\ Ready
    /\ live[l]
    /\ Return(PushFront(Store, l, v, ok), "PushFront", l, l, HeadAddr(l), v, <<>>, NoCmp, live)

CallClear(l) ==
    /\ Ready
    /\ live[l]
    /\ Return(Clear(Store, l), "Clear", l, l, nullptr, 0, <<>>, NoCmp, live)

CallInsertAfter(l, pos, v, ok) ==
    /\ Ready
    /\ live[l]
    /\ pos \in Positions(l)
    /\ Return(InsertAfter(Store, l, pos, v, ok), "InsertAfter", l, l, pos, v, <<>>, NoCmp, live)

\* PopFront's contract is a non-empty list; the .h variant also defines the call on an empty one.
CallPopFront(l) ==
    /\ Ready
    /\ live[l]
    /\ build = "h" \/ head_[l] # nullptr
    /\ Return(PopFront(Store, l), "PopFront", l, l, HeadAddr(l), 0, <<>>, NoCmp, live)

CallEraseAfter(l, pos) ==
    /\ Ready
    /\ live[l]
    /\ pos \in Positions(l)
    /\ NextOf(Store, pos) # nullptr
    /\ Return(EraseAfter(Store, l, pos), "EraseAfter", l, l, pos, 0, <<>>, NoCmp, live)

CallDtor(l) ==
    /\ Ready
    /\ live[l]
    /\ Return(Dtor(Store, l), "Dtor", l, l, nullptr, 0, <<>>, NoCmp, [live EXCEPT ![l] = FALSE])

CallDefaultCtor(l) ==
    /\ Ready
    /\ ~live[l]
    /\ Return(DefaultCtor(Store, l), "DefaultCtor", l, l, nullptr, 0, <<>>, NoCmp,
              [live EXCEPT ![l] = TRUE])

CallInitListCtor(l, values, failAt) ==
    /\ Ready
    /\ ~live[l]
    /\ failAt \in 0..Len(values)
    /\ LET r == InitListCtor(Store, l, values, failAt)
       IN  Return(r, "InitListCtor", l, l, nullptr, failAt, values, NoCmp,
                  [live EXCEPT ![l] = ~r.thrown])

CallCopyCtor(l, other, failAt) ==
    /\ Ready
    /\ ~live[l]
    /\ live[other]
    /\ failAt \in 0..size_[other]
    /\ LET r == CopyCtor(Store, l, other, failAt)
       IN  Return(r, "CopyCtor", l, other, nullptr, failAt, <<>>, NoCmp,
                  [live EXCEPT ![l] = ~r.thrown])

CallCopyAssign(l, rhs, failAt) ==
    /\ Ready
    /\ live[l]
    /\ live[rhs]
    /\ failAt \in 0..size_[rhs]
    /\ Return(CopyAssign(Store, l, rhs, failAt), "CopyAssign", l, rhs, nullptr, failAt,
              <<>>, NoCmp, live)

CallSwap(l, other) ==
    /\ Ready
    /\ live[l]
    /\ live[other]
    /\ Return(swap(Store, l, other), "swap", l, other, nullptr, 0, <<>>, NoCmp, live)

\* template <typename Type> void swap(lhs, rhs) noexcept { lhs.swap(rhs); }
CallFreeSwap(lhs, rhs) ==
    /\ Ready
    /\ live[lhs]
    /\ live[rhs]
    /\ Return(swap(Store, lhs, rhs), "free swap", lhs, rhs, nullptr, 0, <<>>, NoCmp, live)

\* The six comparison operators applied to lhs and rhs.  A comparison that
\* reads through a null pointer may return either answer.
CallCompare(lhs, rhs) ==
    /\ Ready
    /\ live[lhs]
    /\ live[rhs]
    /\ LET e == OperatorEq(Store, lhs, rhs) IN
       \E eq \in (IF e.ub THEN BOOLEAN ELSE {e.result}) :
          Return(Res(Store, FALSE, nullptr, <<>>, e.ub), "Compare", lhs, rhs, nullptr, 0, <<>>,
                 [eq |-> eq,
                  ne |-> IF e.ub THEN ~eq ELSE OperatorNe(Store, lhs, rhs),
                  lt |-> OperatorLess(Store, lhs, rhs),
                  le |-> IF e.ub THEN eq \/ OperatorLess(Store, lhs, rhs)
                                 ELSE OperatorLessEq(Store, lhs, rhs),
                  gt |-> OperatorGreater(Store, lhs, rhs),
                  ge |-> IF e.ub THEN eq \/ OperatorGreater(Store, lhs, rhs)
                                 ELSE OperatorGreaterEq(Store, lhs, rhs),
                  compares |-> e.compares],
                 live)

\* The client is done with what the call returned (the Iterator or bool goes
\* out of scope); the lists and the heap are untouched.  `last` is the
\* record of the call in progress and no part of the program's memory.
Forget ==
    /\ last.op # "idle"
    /\ last' = Idle
    /\ UNCHANGED <<build, live, head_, size_, heap>>

Next ==
    \/ Forget
    \/ \E l \in Lists, v \in Values, ok \in BOOLEAN : CallPushFront(l, v, ok)
    \/ \E l \in Lists : CallClear(l)
    \/ \E l \in Lists, pos \in (Nodes \cup {HeadAddr(m) : m \in Lists}), v \in Values, ok \in BOOLEAN :
          CallInsertAfter(l, pos, v, ok)
    \/ \E l \in Lists : CallPopFront(l)
    \/ \E l \in Lists, pos \in (Nodes \cup {HeadAddr(m) : m \in Lists}) : CallEraseAfter(l, pos)
    \/ \E l \in Lists : CallDtor(l)
    \/ \E l \in Lists : CallDefaultCtor(l)
    \/ \E l \in Lists, values \in InitLists, failAt \in 0..MaxInit : CallInitListCtor(l, values, failAt)
    \/ \E l \in Lists, other \in Lists, failAt \in 0..MaxNodes : CallCopyCtor(l, other, failAt)
    \/ \E l \in Lists, rhs \in Lists, failAt \in 0..MaxNodes : CallCopyAssign(l, rhs, failAt)
    \/ \E l \in Lists, other \in Lists : CallSwap(l, other)
    \/ \E lhs \in Lists, rhs \in Lists : CallFreeSwap(lhs, rhs)
    \/ \E lhs \in Lists, rhs \in Lists : CallCompare(lhs, rhs)

Spec == Init /\ [][Next]_vars

(***************************************************************************)
(* Properties.                                                             *)
(***************************************************************************)
\* No call reads through a null or freed pointer.
NoUB == ~last.ub

\* The memory the recorded call started from.
PreStore == [head_ |-> last.pre.head_, size_ |-> last.pre.size_, heap |-> last.pre.heap]

Range(f) == {f[i] : i \in DOMAIN f}

\* How many elements of chain c come up to and including position pos (0: before_begin()).
IndexOf(c, pos) == IF pos < 0 THEN 0 ELSE CHOOSE k \in 1..Len(c) : c[k] = pos

\* Lexicographic order on sequences: a strict prefix is less, else the first difference decides.
LexLess(a, b) ==
    \E k \in 0..Len(a) :
       /\ k <= Len(b)
       /\ \A i \in 1..k : a[i] = b[i]
       /\ \/ k = Len(a) /\ k < Len(b)
          \/ k < Len(a) /\ k < Len(b) /\ a[k + 1] < b[k + 1]

\* The chain of list l ends in a null next_node after at most MaxNodes nodes.
EndsInNull(s, l) ==
    LET c == NodeChain(s, l) IN
    /\ Len(c) <= MaxNodes
    /\ IF c = <<>> THEN s.head_[l] = nullptr ELSE s.heap[c[Len(c)]].next_node = nullptr

\* C1: in every reachable state, every live list's size_ is the number of
\* nodes reachable from head_.next_node, and that chain has no node twice
\* and ends in nullptr.
C1_SizeIsChainLength ==
    \A l \in Lists : live[l] =>
        LET c == NodeChain(Store, l) IN
        /\ EndsInNull(Store, l)
        /\ Cardinality(Range(c)) = Len(c)
        /\ size_[l] = Len(c)

\* C1 witness: a swap has returned on two live lists holding two nodes and one node.
C1_Witness ==
    /\ last.op = "swap"
    /\ last.l # last.o
    /\ Len(NodeChain(Store, last.l)) + Len(NodeChain(Store, last.o)) = 3
    /\ Len(NodeChain(Store, last.l)) \in {1, 2}

\* C6: when the new-expression of InsertAfter or PushFront throws, every
\* next_node (pos's and the sentinel's included), every size_ and the set
\* of allocated nodes are what they were before the call.
C6_FailedInsertChangesNothing ==
    (last.op \in {"InsertAfter", "PushFront"} /\ last.thrown) =>
        /\ head_ = last.pre.head_
        /\ size_ = last.pre.size_
        /\ heap = last.pre.heap

\* C6 witness: InsertAfter at an element of a non-empty list threw while the heap still had room.
C6_Witness ==
    /\ last.op = "InsertAfter"
    /\ last.thrown
    /\ last.pos > 0
    /\ Allocated(Store) # Nodes

\* C7: operator== answers true exactly when the two traversals have the
\* same length and equal elements position by position, and operator!= is
\* its negation; it is reflexive and symmetric, and lists of different
\* size_ are unequal without any element having been compared.
C7_EqualityIsElementwise ==
    last.op = "Compare" =>
        LET a == Traversal(Store, last.l)
            b == Traversal(Store, last.o)
        IN  /\ ~last.ub
            /\ last.cmp.eq <=> (Len(a) = Len(b) /\ \A i \in 1..Len(a) : a[i] = b[i])
            /\ last.cmp.ne <=> ~last.cmp.eq
            /\ last.l = last.o => last.cmp.eq
            /\ last.cmp.eq <=> OperatorEq(Store, last.o, last.l).result
            /\ GetSize(Store, last.l) # GetSize(Store, last.o) =>
                   ~last.cmp.eq /\ last.cmp.compares = 0

\* C7 witness: two distinct lists of the same non-zero size compared unequal after an element comparison.
C7_Witness ==
    /\ last.op = "Compare"
    /\ last.l # last.o
    /\ size_[last.l] = size_[last.o]
    /\ size_[last.l] > 0
    /\ ~last.cmp.eq
    /\ last.cmp.compares > 0

\* C8: InsertAfter(pos, v) that returns puts v right after position pos,
\* keeps every other node where it was relative to the others, adds one to
\* size_ and returns an iterator to the new node, which holds v; at
\* before_begin() it leaves the memory PushFront(v) leaves; PushFront(v)
\* puts v first and adds one to size_.
C8_InsertAfterInsertsAtNextIndex ==
    /\ (last.op = "InsertAfter" /\ ~last.thrown) =>
        LET S == Traversal(PreStore, last.l)
            C == NodeChain(PreStore, last.l)
            k == IndexOf(C, last.pos)
        IN  /\ Traversal(Store, last.l) = SubSeq(S, 1, k) \o <<last.v>> \o SubSeq(S, k + 1, Len(S))
            /\ NodeChain(Store, last.l) = SubSeq(C, 1, k) \o <<last.ret>> \o SubSeq(C, k + 1, Len(C))
            /\ last.ret \notin DOMAIN last.pre.heap
            /\ last.ret \in DOMAIN heap
            /\ heap[last.ret].value = last.v
            /\ size_[last.l] = last.pre.size_[last.l] + 1
            /\ last.pos = HeadAddr(last.l) => Store = PushFront(PreStore, last.l, last.v, TRUE).s
    /\ (last.op = "PushFront" /\ ~last.thrown) =>
        /\ Traversal(Store, last.l) = <<last.v>> \o Traversal(PreStore, last.l)
        /\ NodeChain(Store, last.l)[1] \notin DOMAIN last.pre.heap
        /\ Tail(NodeChain(Store, last.l)) = NodeChain(PreStore, last.l)
        /\ size_[last.l] = last.pre.size_[last.l] + 1

\* C8 witness: InsertAfter returned after inserting between two elements.
C8_Witness ==
    /\ last.op = "InsertAfter"
    /\ ~last.thrown
    /\ last.pos > 0
    /\ NextOf(PreStore, last.pos) # nullptr

\* C9: EraseAfter(pos) deletes exactly the node after pos, keeps the other
\* nodes in order, takes one from size_ and returns an iterator to the node
\* now after pos, or end(); at before_begin() of a non-empty list it leaves
\* the memory PopFront() leaves; PopFront() on a non-empty list deletes the
\* first node and takes one from size_.
C9_EraseAfterRemovesNextIndex ==
    /\ last.op = "EraseAfter" =>
        LET S == Traversal(PreStore, last.l)
            C == NodeChain(PreStore, last.l)
            k == IndexOf(C, last.pos)
        IN  /\ ~last.ub
            /\ Traversal(Store, last.l) = SubSeq(S, 1, k) \o SubSeq(S, k + 2, Len(S))
            /\ NodeChain(Store, last.l) = SubSeq(C, 1, k) \o SubSeq(C, k + 2, Len(C))
            /\ last.deleted = <<C[k + 1]>>
            /\ DOMAIN heap = (DOMAIN last.pre.heap) \ {C[k + 1]}
            /\ size_[last.l] = last.pre.size_[last.l] - 1
            /\ last.ret = IF k + 2 <= Len(C) THEN C[k + 2] ELSE nullptr
            /\ last.pos = HeadAddr(last.l) => Store = PopFront(PreStore, last.l).s
    /\ (last.op = "PopFront" /\ last.pre.head_[last.l] # nullptr) =>
        LET C == NodeChain(PreStore, last.l)
        IN  /\ ~last.ub
            /\ Traversal(Store, last.l) = Tail(Traversal(PreStore, last.l))
            /\ NodeChain(Store, last.l) = Tail(C)
            /\ last.deleted = <<C[1]>>
            /\ DOMAIN heap = (DOMAIN last.pre.heap) \ {C[1]}
            /\ size_[last.l] = last.pre.size_[last.l] - 1

\* C9 witness: EraseAfter at an element removed a node that had a successor.
C9_Witness ==
    /\ last.op = "EraseAfter"
    /\ last.pos > 0
    /\ last.ret # nullptr

\* C10: Clear() leaves size_ 0, head_.next_node null and the traversal
\* empty, deletes every node of the former chain once and no other node,
\* and a second Clear() changes nothing and deletes nothing.
C10_ClearEmptiesAndIsIdempotent ==
    last.op = "Clear" =>
        LET C == NodeChain(PreStore, last.l)
        IN  /\ ~last.ub
            /\ size_[last.l] = 0
            /\ head_[last.l] = nullptr
            /\ Traversal(Store, last.l) = <<>>
            /\ last.deleted = C
            /\ DOMAIN heap = (DOMAIN last.pre.heap) \ Range(C)
            /\ Clear(Store, last.l) = Res(Store, FALSE, nullptr, <<>>, FALSE)

\* C10 witness: Clear() returned on a list that held at least two nodes.
C10_Witness ==
    /\ last.op = "Clear"
    /\ last.pre.size_[last.l] >= 2

\* C2: operator< answers true exactly when lhs's traversal is
\* lexicographically less than rhs's, operator> exactly when rhs's is less
\* than lhs's, and exactly one of <, ==, > holds.
C2_OrderingIsLexicographic ==
    last.op = "Compare" =>
        LET a == Traversal(Store, last.l)
            b == Traversal(Store, last.o)
        IN  /\ last.cmp.lt <=> LexLess(a, b)
            /\ last.cmp.gt <=> LexLess(b, a)
            /\ Cardinality({x \in {"lt", "eq", "gt"} : last.cmp[x]}) = 1

\* C3: swap, member or free, leaves each list with the other's former
\* traversal and size_, by exchanging the two head_.next_node and the two
\* size_ and touching no node.
C3_SwapExchangesContents ==
    last.op \in {"swap", "free swap"} =>
        /\ Traversal(Store, last.l) = Traversal(PreStore, last.o)
        /\ Traversal(Store, last.o) = Traversal(PreStore, last.l)
        /\ size_[last.l] = last.pre.size_[last.o]
        /\ size_[last.o] = last.pre.size_[last.l]
        /\ head_[last.l] = last.pre.head_[last.o]
        /\ head_[last.o] = last.pre.head_[last.l]
        /\ heap = last.pre.heap

\* The nodes of two lists are disjoint.
Disjoint(s, l, m) == Range(NodeChain(s, l)) \cap Range(NodeChain(s, m)) = {}

\* A copy into last.l from last.o has returned: last.l holds what last.o held, last.o is
\* untouched and the two chains share no node; a self-assignment changed nothing.
CopyIsDeep ==
    IF last.l = last.o THEN Store = PreStore
    ELSE /\ Traversal(Store, last.l) = Traversal(PreStore, last.o)
         /\ size_[last.l] = last.pre.size_[last.o]
         /\ NodeChain(Store, last.o) = NodeChain(PreStore, last.o)
         /\ Traversal(Store, last.o) = Traversal(PreStore, last.o)
         /\ size_[last.o] = last.pre.size_[last.o]
         /\ Disjoint(Store, last.l, last.o)

\* A mutation of last.l has returned or thrown: every other live list has the traversal and size it had.
OthersUntouched ==
    \A m \in Lists \ {last.l} : live[m] =>
        /\ Traversal(Store, m) = Traversal(PreStore, m)
        /\ size_[m] = last.pre.size_[m]

\* C4: a copy construction or copy assignment that returns makes a deep
\* copy (self-assignment changes nothing), and every later PushFront,
\* PopFront, InsertAfter, EraseAfter or Clear on one list leaves the other
\* list's traversal and size_ as they were.
C4_CopyIsDeepAndIndependent ==
    /\ (last.op \in {"CopyCtor", "CopyAssign"} /\ ~last.thrown) => CopyIsDeep
    /\ last.op \in {"PushFront", "PopFront", "InsertAfter", "EraseAfter", "Clear"} => OthersUntouched

\* The part of C4 the code keeps: copy construction in both variants, and copy assignment in part_000.
CopyConstructionIsDeepAndIndependent ==
    /\ (last.op = "CopyCtor" /\ ~last.thrown) => CopyIsDeep
    /\ (last.op = "CopyAssign" /\ ~last.thrown /\ build = "part") => CopyIsDeep
    /\ last.op \in {"PushFront", "PopFront", "InsertAfter", "EraseAfter", "Clear"} => OthersUntouched

\* C5: when a copy construction or a construction from an initializer list
\* throws, no node it allocated is still allocated, and the source list has
\* the traversal and size_ it had.
C5_FailedConstructionReleasesChain ==
    (last.op \in {"CopyCtor", "InitListCtor"} /\ last.thrown) =>
        /\ DOMAIN heap = DOMAIN last.pre.heap
        /\ last.op = "CopyCtor" =>
              /\ Traversal(Store, last.o) = Traversal(PreStore, last.o)
              /\ size_[last.o] = last.pre.size_[last.o]

\* The part of C5 the code keeps: the source of a failed copy is untouched.
FailedCopyLeavesSource ==
    (last.op = "CopyCtor" /\ last.thrown) =>
        /\ NodeChain(Store, last.o) = NodeChain(PreStore, last.o)
        /\ Traversal(Store, last.o) = Traversal(PreStore, last.o)
        /\ size_[last.o] = last.pre.size_[last.o]

====
